---- MODULE Spec2Model ----
(***************************************************************************)
(* A model of LOAS: the identifier assigner of add_guids.py and the        *)
(* validator, emitters and commands of main.py.                            *)
(*                                                                         *)
(* A YAML file is a sequence of lines.  A line is a record                 *)
(*   [k, ind, id, junk]                                                    *)
(* k    is what the regular expressions of add_guids.py can tell apart:    *)
(*      "name"     [ \t]*-[ \t]*name:...      (a test entry's name line)    *)
(*      "guid"     [ \t]*guid:...             (an identifier line)          *)
(*      "guidlike" a line whose first non-blank text is "guid" but that    *)
(*                 is no guid: line (guidance: ...)                        *)
(*      "blank"    white space only                                        *)
(*      "other"    anything else                                           *)
(* ind  is the text before name: or guid: (group 2 of the first            *)
(*      substitution), a sequence over "sp", "tab", "dash"                 *)
(* id   is the identifier written after guid:, or NoId                     *)
(* junk says that more text follows on the line                            *)
(***************************************************************************)
EXTENDS Integers, Sequences, FiniteSets, TLC

\* ------------------------------------------------------------------ bounds
\* The lines of the whole corpus of the identifier assigner.
MaxTotalLines == 4
\* Collisions the generator may produce within one replace_guid call.
MaxRetries == 1
\* The declared arguments of a test definition.
MaxArgs == 2
\* The arguments given on the command line to an emitted artifact.
MaxArgv == 3
\* The tests of the whole corpus of main.py.
MaxTotalTests == 4

\* --------------------------------------------------------------- variables
VARIABLES
  \* add_guids.py
  yaml,            \* the corpus on disk: a sequence of files, in glob order
  yaml0,           \* the corpus as it was before the first run
  run,             \* "first" or "second" run of main()
  mpc,             \* where main() is: "assign", "check", "exit", "done"
  file_i,          \* the file add_guids_to_yaml_files is at (line 120)
  gpc,             \* where generate_guids_for_yaml is: "idle" or "fill"
  og_text,         \* generate_guids_for_yaml: the text read
  text,            \* generate_guids_for_yaml: the text being rewritten
  m_pos,           \* the line the second substitution is at, 0: no match left
  retries,         \* collisions seen by the running replace_guid call,
                   \* counted modulo MaxRetries + 1
  existing_guids,  \* the shared set of seen identifiers
  files_updated,   \* add_guids_to_yaml_files: the count returned
  returned,        \* what generate_guids_for_yaml returned, file by file
  written,         \* the files this run wrote
  synthesized,     \* the identifiers replace_guid returned in this run
  check_i,         \* the file check_for_duplicate_guids is at (line 84)
  guid_locations,  \* check_for_duplicate_guids: guid -> list of (file, line)
  duplicates,      \* check_for_duplicate_guids: the duplicates returned
  exit_code,       \* main(): the code passed to sys.exit, -1: none yet
  \* main.py, Script and the artifacts emitted for it
  script,          \* the test definition (a Script object)
  script_art,      \* the script artifact written by convert_yaml_to_script
  wrapper_art,     \* the Swift wrapper written by convert_yaml_to_script
  cli,             \* one run of an emitted artifact from the command line
  \* main.py, the passes over the corpus and the commands
  corpus,          \* the definition files under yaml/, in glob order
  command_name,             \* the command running: validate, convert, build, dump_json
  step,            \* the pass the command is in
  pass_i,          \* the file the pass is at
  errors,          \* the errors list of the pass
  files_validated, \* validate_yaml_files
  all_script_names, \* validate_yaml_files: name -> file
  converted_count, \* convert_yaml_to_script
  artifacts,       \* the script and wrapper files written under osascripts/, swift/
  scripts_data,    \* dump_scripts_json
  generated_count, \* generate_markdown_docs
  passes,          \* the passes that returned, with what they returned
  exit_status      \* the exit status of the command, -1 while it runs

guidVars == <<yaml, yaml0, run, mpc, file_i, gpc, og_text, text, m_pos,
              retries, existing_guids, files_updated, returned, written,
              synthesized, check_i, guid_locations, duplicates, exit_code>>

emitVars == <<script, script_art, wrapper_art, cli>>

passVars == <<corpus, command_name, step, pass_i, errors, files_validated,
              all_script_names, converted_count, artifacts, scripts_data,
              generated_count, passes, exit_status>>

vars == <<guidVars, emitVars, passVars>>

Range(q) == {q[i] : i \in 1..Len(q)}

\* ------------------------------------------------------------- identifiers
NoId == [hex |-> "", ver |-> "", up |-> FALSE]

\* An identifier of 8-4-4-4-12 hexadecimal digits: hex names its digits,
\* ver is "7" when the version and variant digits are those of a UUID7,
\* up says the digits are written in capitals.
Id(h, v, u) == [hex |-> h, ver |-> v, up |-> u]

\* str.lower()
Lower(g) == [g EXCEPT !.up = FALSE]

\* What uuid7() can return: version 7, written in small letters.
GenHex == {"a", "b", "c"}
Uuid7 == {Id(h, "7", FALSE) : h \in GenHex}

\* ------------------------------------------------------------------- lines
NameLine(ind) == [k |-> "name", ind |-> ind, id |-> NoId, junk |-> FALSE]
GuidLine(ind, g, j) == [k |-> "guid", ind |-> ind, id |-> g, junk |-> j]
OtherLine == [k |-> "other", ind |-> <<>>, id |-> NoId, junk |-> FALSE]
BlankLine == [k |-> "blank", ind |-> <<>>, id |-> NoId, junk |-> FALSE]
GuidlikeLine == [k |-> "guidlike", ind |-> <<>>, id |-> NoId, junk |-> FALSE]

\* The lines the corpus is drawn from: a name line, a guid: line with a
\* version-7 identifier in small letters, the same in capitals, a guid: line
\* with a version-4 identifier, a line of another field, a blank line, and
\* a line "    guid: text" that lies deeper than the fields of an entry (a
\* key of an argument map, a line of a command body).  (The empty guid: line
\* is what the first substitution inserts.)
Alphabet ==
  { NameLine(<<"dash", "sp">>),
    GuidLine(<<"sp", "sp">>, Id("a", "7", FALSE), FALSE),
    GuidLine(<<"sp", "sp">>, Id("a", "7", TRUE), FALSE),
    GuidLine(<<"sp", "sp">>, Id("b", "4", FALSE), FALSE),
    GuidLine(<<"sp", "sp", "sp", "sp">>, NoId, TRUE),
    OtherLine,
    BlankLine }

TextsOfLen(n) == [1..n -> Alphabet]

\* ---------------------------------------------- generate_guids_for_yaml
\* (?i)^[ \t]*guid:[ \t]*(8-4-4-4-12 hex)[ \t]*$
WellFormedGuidLine(l) == l.k = "guid" /\ l.id # NoId /\ ~l.junk

\* The findall of lines 29-35: the identifiers of the file, in small letters.
ExistingGuidMatches(t) ==
  {Lower(t[j].id) : j \in {n \in 1..Len(t) : WellFormedGuidLine(t[n])}}

\* (?!\s*guid) fails: after the name line at i, white space and then "guid".
RECURSIVE FollowedByGuid(_, _)
FollowedByGuid(t, i) ==
  IF i + 1 > Len(t) THEN FALSE
  ELSE IF t[i + 1].k = "blank" THEN FollowedByGuid(t, i + 1)
  ELSE t[i + 1].k \in {"guid", "guidlike"}

\* m.group(2).replace('-', ' ')
RECURSIVE ReplaceDash(_)
ReplaceDash(ind) ==
  IF ind = <<>> THEN <<>>
  ELSE <<IF Head(ind) = "dash" THEN "sp" ELSE Head(ind)>> \o ReplaceDash(Tail(ind))

\* The first re.sub (lines 38-43): an empty guid: line after every name line
\* that no guid follows.
RECURSIVE InsertFrom(_, _)
InsertFrom(t, i) ==
  IF i > Len(t) THEN <<>>
  ELSE IF t[i].k = "name" /\ ~FollowedByGuid(t, i)
       THEN <<t[i], GuidLine(ReplaceDash(t[i].ind), NoId, FALSE)>> \o InsertFrom(t, i + 1)
       ELSE <<t[i]>> \o InsertFrom(t, i + 1)

\* The first re.sub without its lookahead (?!\s*guid).
RECURSIVE InsertAlwaysFrom(_, _)
InsertAlwaysFrom(t, i) ==
  IF i > Len(t) THEN <<>>
  ELSE IF t[i].k = "name"
       THEN <<t[i], GuidLine(ReplaceDash(t[i].ind), NoId, FALSE)>> \o InsertAlwaysFrom(t, i + 1)
       ELSE <<t[i]>> \o InsertAlwaysFrom(t, i + 1)

InsertGuidLinesNoLookahead(t) == InsertAlwaysFrom(t, 1)

InsertGuidLines(t) == InsertFrom(t, 1)

\* The pattern of the second re.sub without its lookahead: any guid: line.
NeedsGuidWhateverFollows(l) == l.k = "guid"

\* The pattern of the second re.sub (line 57): a guid: line that no
\* version-7-shaped identifier follows.
NeedsGuid(l) == l.k = "guid" /\ ~(l.id # NoId /\ l.id.ver = "7")

\* The next match of the second re.sub at or after line from, 0 when none.
RECURSIVE NextMatch(_, _)
NextMatch(t, from) ==
  IF from > Len(t) THEN 0
  ELSE IF NeedsGuid(t[from]) THEN from
  ELSE NextMatch(t, from + 1)

\* f"{m.group(1)} {new_guid}"
Filled(l, g) == GuidLine(l.ind, g, FALSE)

\* ------------------------------------------- check_for_duplicate_guids
\* match.group(1) without .lower()
GuidKeyAsWritten(g) == g

\* match.group(1).lower() (line 92)
GuidKey(g) == Lower(g)

\* guid_locations[guid].append((yaml_file, line_num)) (lines 93-95)
Put(locs, g, loc) ==
  [x \in DOMAIN locs \cup {g} |->
     IF x = g
     THEN IF g \in DOMAIN locs THEN Append(locs[g], loc) ELSE <<loc>>
     ELSE locs[x]]

\* The loop of lines 86-95 over the lines of file f, from line n on.
RECURSIVE ScanFrom(_, _, _, _)
ScanFrom(locs, f, t, n) ==
  IF n > Len(t) THEN locs
  ELSE IF WellFormedGuidLine(t[n])
       THEN ScanFrom(Put(locs, GuidKey(t[n].id), <<f, n>>), f, t, n + 1)
       ELSE ScanFrom(locs, f, t, n + 1)

\* duplicates (line 98)
Duplicates(locs) ==
  [g \in {x \in DOMAIN locs : Len(locs[x]) > 1} |-> locs[g]]

EmptyDict == [g \in {} |-> <<>>]

\* ----------------------------------------------------------- main.py: Script
\* A default value of args, with the Python type yaml.safe_load gave it;
\* v is str(default_value).
Default(kind, v) == [kind |-> kind, v |-> v]
Defaults ==
  { Default("str", "/tmp"), Default("bool", "True"),
    Default("int", "5"), Default("float", "1.5") }
ArgNames == {"path", "count", "flag"}
ArgSpecs == [name : ArgNames, default : Defaults]

\* args: an ordered mapping, so a sequence without repeated names.
ArgLists(n) ==
  {a \in [1..n -> ArgSpecs] : \A i, j \in 1..n : i # j => a[i].name # a[j].name}

\* list(self.args.keys())
Keys(args) == [i \in 1..Len(args) |-> args[i].name]

\* The text of a command is a sequence of lines, a line a sequence of tokens:
\* "txt" some text without quote or placeholder, "q" a double quote, "ph" the
\* placeholder #{s}, "fw" the words use framework, "interp" Swift's \(s).
Tok(t, x) == [t |-> t, s |-> x]
Quote == Tok("q", "")
Placeholder(n) == Tok("ph", n)

\* str.replace(old, new) on one line, old and new being token sequences.
RECURSIVE ReplaceIn(_, _, _)
ReplaceIn(line, old, new) ==
  IF Len(line) < Len(old) THEN line
  ELSE IF SubSeq(line, 1, Len(old)) = old
       THEN new \o ReplaceIn(SubSeq(line, Len(old) + 1, Len(line)), old, new)
       ELSE <<Head(line)>> \o ReplaceIn(Tail(line), old, new)

ReplaceAll(cmd, old, new) == [i \in 1..Len(cmd) |-> ReplaceIn(cmd[i], old, new)]

\* The lines kept by "if line.strip()" (lines 213-215).
RECURSIVE NonEmptyLines(_)
NonEmptyLines(cmd) ==
  IF cmd = <<>> THEN <<>>
  ELSE IF Head(cmd) = <<>> THEN NonEmptyLines(Tail(cmd))
  ELSE <<Head(cmd)>> \o NonEmptyLines(Tail(cmd))

\* line.strip().startswith("use framework")
IsFrameworkLine(line) == line # <<>> /\ Head(line).t = "fw"

\* "use framework" in command
UsesFramework(cmd) ==
  \E i \in 1..Len(cmd) : \E j \in 1..Len(cmd[i]) : cmd[i][j].t = "fw"

RECURSIVE SelectLines(_, _)
SelectLines(cmd, fw) ==
  IF cmd = <<>> THEN <<>>
  ELSE IF IsFrameworkLine(Head(cmd)) = fw
       THEN <<Head(cmd)>> \o SelectLines(Tail(cmd), fw)
       ELSE SelectLines(Tail(cmd), fw)

\* A substitution that replaces the placeholders of the arguments and keeps
\* the quotes around them.
SubstituteNamesKeepingQuotes(cmd, args, i) ==
  [l \in 1..Len(cmd) |->
     [j \in 1..Len(cmd[l]) |->
        IF cmd[l][j].t = "ph" /\ cmd[l][j].s \in Range(Keys(args))
        THEN Tok("txt", cmd[l][j].s)
        ELSE cmd[l][j]]]

\* Lines 206-210: for every argument, "#{arg}" and then #{arg} become arg.
RECURSIVE SubstituteNames(_, _, _)
SubstituteNames(cmd, args, i) ==
  IF i > Len(args) THEN cmd
  ELSE LET n == args[i].name
           unquoted == ReplaceAll(cmd, <<Quote, Placeholder(n), Quote>>, <<Tok("txt", n)>>)
       IN SubstituteNames(ReplaceAll(unquoted, <<Placeholder(n)>>, <<Tok("txt", n)>>),
                          args, i + 1)

\* A substitution that turns every placeholder into an interpolation,
\* declared or not.
SubstituteEveryPlaceholder(cmd, args, i) ==
  [l \in 1..Len(cmd) |->
     [j \in 1..Len(cmd[l]) |->
        IF cmd[l][j].t = "ph" THEN Tok("interp", cmd[l][j].s) ELSE cmd[l][j]]]

\* Lines 367-370 and 566-569: for every argument, #{arg} becomes \(arg).
RECURSIVE SubstituteInterpolations(_, _, _)
SubstituteInterpolations(cmd, args, i) ==
  IF i > Len(args) THEN cmd
  ELSE SubstituteInterpolations(
         ReplaceAll(cmd, <<Placeholder(args[i].name)>>, <<Tok("interp", args[i].name)>>),
         args, i + 1)

\* A literal of the emitted program: "string", "bool" or "number".
Literal(form, v) == [form |-> form, v |-> v]

\* The default written into the AppleScript (lines 252-259, 224-229).
AppleScriptLiteral(d) ==
  IF d.kind = "str" THEN Literal("string", d.v)
  ELSE IF d.kind = "bool" THEN Literal("bool", IF d.v = "True" THEN "true" ELSE "false")
  ELSE Literal("number", d.v)

\* str(default_value).lower()
PyLowerBool(v) == IF v = "True" THEN "true" ELSE "false"

\* The default written into the Swift wrapper (lines 441-450).
SwiftLiteral(d) ==
  IF d.kind = "str" THEN Literal("string", d.v)
  ELSE IF d.kind = "bool" THEN Literal("bool", PyLowerBool(d.v))
  ELSE Literal("number", d.v)

\* Lines 348-357 and 428-437.
SwiftType(d) ==
  IF d.kind = "str" THEN "String"
  ELSE IF d.kind = "bool" THEN "Bool"
  ELSE IF d.kind = "int" THEN "Int"
  ELSE IF d.kind = "float" THEN "Double"
  ELSE "String"

\* The help routine: the title, one line per argument, the usage examples.
HelpLines(name, args) ==
  [ title |-> name,
    args |-> [i \in 1..Len(args) |->
                [n |-> i, name |-> args[i].name, type |-> args[i].default.kind,
                 default |-> args[i].default.v]],
    examples |-> IF Len(args) = 0 THEN "none"
                 ELSE IF Len(args) = 1 THEN "one" ELSE "many" ]

NoDispatch == [present |-> FALSE, help_flag |-> "", parse |-> <<>>, call |-> <<>>]

NoArtifact ==
  [ kind |-> "none", preamble |-> <<>>, help |-> HelpLines("", <<>>),
    has_entry |-> FALSE, params |-> <<>>, types |-> <<>>, body |-> <<>>,
    example |-> <<>>, dispatch |-> NoDispatch ]

\* The index of the first positional argument a parse block of the
\* AppleScript tests: "if (count of argv) > {i}", i counted from 0 (line 249).
AppleScriptCountAbove(i) == i - 1

\* Script.to_osascript (lines 139-289), i counted from 1 here.
ToOsascript(sc) ==
  LET fw == UsesFramework(sc.command)
      command == IF fw THEN SelectLines(sc.command, FALSE) ELSE sc.command
  IN [ kind |-> "osascript",
       preamble |-> IF fw THEN SelectLines(sc.command, TRUE) ELSE <<>>,
       help |-> HelpLines(sc.name, sc.args),
       has_entry |-> TRUE,
       params |-> Keys(sc.args),
       types |-> <<>>,
       body |-> NonEmptyLines(SubstituteNames(command, sc.args, 1)),
       example |-> [i \in 1..Len(sc.args) |-> AppleScriptLiteral(sc.args[i].default)],
       dispatch |->
         [ present |-> TRUE,
           help_flag |-> "-h",
           parse |-> [i \in 1..Len(sc.args) |->
                        [ name |-> sc.args[i].name,
                          type |-> "",
                          count_above |-> AppleScriptCountAbove(i),
                          index |-> i,
                          conv |-> "none",
                          default |-> AppleScriptLiteral(sc.args[i].default) ]],
           call |-> Keys(sc.args) ] ]

\* Script.to_javascript (lines 291-293): the interpreter line and the command.
ToJavascript(sc) ==
  [ kind |-> "javascript", preamble |-> <<>>, help |-> HelpLines("", <<>>),
    has_entry |-> FALSE, params |-> <<>>, types |-> <<>>, body |-> sc.command,
    example |-> <<>>, dispatch |-> NoDispatch ]

\* The conversion a Swift parse block applies (lines 453-468).
SwiftConv(d) ==
  IF d.kind = "str" THEN "none"
  ELSE IF d.kind = "bool" THEN "bool"
  ELSE IF d.kind = "int" THEN "int"
  ELSE IF d.kind = "float" THEN "double"
  ELSE "none"

\* The parse block of argument i reading the argument after its own.
SwiftArgumentIndexOffByOne(i) == i + 1

\* "if arguments.count > {i + 1}" and "arguments[{i + 1}]", i counted from 0
\* (lines 452-468); arguments[0] is the program.
SwiftArgumentIndex(i) == i

\* The part that to_swift_wrapper (lines 295-478) and
\* to_swift_javascript_wrapper (lines 480-665) share.
SwiftWrapper(sc, kind) ==
  [ kind |-> kind,
    preamble |-> <<>>,
    help |-> HelpLines(sc.name, sc.args),
    has_entry |-> TRUE,
    params |-> Keys(sc.args),
    types |-> [i \in 1..Len(sc.args) |-> SwiftType(sc.args[i].default)],
    body |-> NonEmptyLines(SubstituteInterpolations(sc.command, sc.args, 1)),
    example |-> [i \in 1..Len(sc.args) |-> SwiftLiteral(sc.args[i].default)],
    dispatch |->
      [ present |-> TRUE,
        help_flag |-> "-h",
        parse |-> [i \in 1..Len(sc.args) |->
                     [ name |-> sc.args[i].name,
                       type |-> SwiftType(sc.args[i].default),
                       count_above |-> SwiftArgumentIndex(i),
                       index |-> SwiftArgumentIndex(i),
                       conv |-> SwiftConv(sc.args[i].default),
                       default |-> SwiftLiteral(sc.args[i].default) ]],
        call |-> Keys(sc.args) ] ]

ToSwiftWrapper(sc) == SwiftWrapper(sc, "swift_applescript")
ToSwiftJavascriptWrapper(sc) == SwiftWrapper(sc, "swift_javascript")

\* ------------------------------------------- running an emitted artifact
\* What can be typed on the command line.
CliTexts == {"-h", "/var", "TRUE", "42"}
Argvs == UNION {[1..n -> CliTexts] : n \in 0..MaxArgv}

\* A value of the running program: "text", "bool" or "number".
Value(kind, v) == [kind |-> kind, v |-> v]

\* Swift's lowercased()
Lowercased(x) == IF x = "TRUE" THEN "true" ELSE x
\* Swift's Int(x), "nil" when x is no integer
IntOf(x) == IF x = "42" THEN "42" ELSE "nil"
\* Swift's Double(x), "nil" when x is no number
DoubleOf(x) == IF x = "42" THEN "42.0" ELSE "nil"

LiteralValue(lit) ==
  IF lit.form = "string" THEN Value("text", lit.v)
  ELSE IF lit.form = "bool" THEN Value("bool", lit.v)
  ELSE Value("number", lit.v)

\* The right-hand sides of lines 454-468, evaluated.
Converted(conv, x, default) ==
  IF conv = "bool" THEN Value("bool", IF Lowercased(x) = "true" THEN "true" ELSE "false")
  ELSE IF conv = "int"
       THEN IF IntOf(x) = "nil" THEN LiteralValue(default) ELSE Value("number", IntOf(x))
  ELSE IF conv = "double"
       THEN IF DoubleOf(x) = "nil" THEN LiteralValue(default) ELSE Value("number", DoubleOf(x))
  ELSE Value("text", x)

\* The value of variable n after the parse blocks have run; arguments is
\* indexed from first (AppleScript's argv from 1, Swift's arguments from 0).
Resolved(parse, n, arguments, first) ==
  LET b == CHOOSE b \in Range(parse) : b.name = n
  IN IF Len(arguments) > b.count_above
     THEN Converted(b.conv, arguments[b.index - first + 1], b.default)
     ELSE LiteralValue(b.default)

NoRun == [ran |-> "none", argv |-> <<>>, help_shown |-> FALSE, main_calls |-> <<>>,
          top_level |-> FALSE]

\* "on run argv" without its test for the help flag.
RunAppleScriptWithoutHelp(art, argv) ==
  [ran |-> "script", argv |-> argv, help_shown |-> FALSE,
   main_calls |-> << [i \in 1..Len(art.dispatch.call) |->
                        Resolved(art.dispatch.parse, art.dispatch.call[i], argv, 1)] >>,
   top_level |-> FALSE]

\* "on run argv" of the emitted AppleScript (lines 236-266 and 278-287).
RunAppleScript(art, argv) ==
  IF Len(argv) > 0 /\ argv[1] = art.dispatch.help_flag
  THEN [ran |-> "script", argv |-> argv, help_shown |-> TRUE, main_calls |-> <<>>,
        top_level |-> FALSE]
  ELSE [ran |-> "script", argv |-> argv, help_shown |-> FALSE,
        main_calls |-> << [i \in 1..Len(art.dispatch.call) |->
                             Resolved(art.dispatch.parse, art.dispatch.call[i], argv, 1)] >>,
        top_level |-> FALSE]

\* The top level of the emitted Swift wrapper (lines 411-476 and 598-663).
RunSwift(art, argv) ==
  LET arguments == <<"program">> \o argv
  IN IF Len(arguments) > 1 /\ arguments[2] = art.dispatch.help_flag
     THEN [ran |-> "wrapper", argv |-> argv, help_shown |-> TRUE, main_calls |-> <<>>,
           top_level |-> FALSE]
     ELSE [ran |-> "wrapper", argv |-> argv, help_shown |-> FALSE,
           main_calls |-> << [i \in 1..Len(art.dispatch.call) |->
                                Resolved(art.dispatch.parse, art.dispatch.call[i],
                                         arguments, 0)] >>,
           top_level |-> FALSE]

\* The emitted JavaScript is the command itself (line 293): it runs as it is.
RunJavaScript(art, argv) ==
  [ran |-> "script", argv |-> argv, help_shown |-> FALSE, main_calls |-> <<>>,
   top_level |-> TRUE]

\* The command of the test definitions: a framework line, an empty line and
\* a line with a quoted and an unquoted placeholder.
SampleCommand ==
  << <<Tok("fw", ""), Tok("txt", "Foundation")>>,
     <<>>,
     <<Tok("txt", "do shell script"), Quote, Placeholder("path"), Quote,
       Tok("txt", "&"), Placeholder("count")>> >>

\* A command whose framework line holds a placeholder and whose second line
\* holds the placeholder of path three times, bare and quoted, and the
\* placeholder of home, a name no test declares.
RepeatingCommand ==
  << <<Tok("fw", ""), Quote, Placeholder("path"), Quote>>,
     <<Tok("txt", "open"), Placeholder("path"), Tok("txt", "&"), Placeholder("path"),
       Quote, Placeholder("path"), Quote, Placeholder("home")>> >>

Commands == {SampleCommand, RepeatingCommand}

Scripts ==
  [ name : {"Alpha"},
    command : Commands,
    language : {"AppleScript", "JavaScript"},
    args : UNION {ArgLists(n) : n \in 0..MaxArgs} ]

NoScript == [name |-> "", command |-> <<>>, language |-> "", args |-> <<>>]

EmitOff ==
  /\ script = NoScript
  /\ script_art = NoArtifact
  /\ wrapper_art = NoArtifact
  /\ cli = NoRun

\* ------------------------------------------------ main.py: the corpus passes
\* The test entries the definition files are drawn from: a name and the
\* guid field add_guids.py gave the entry.
TestPool ==
  { [name |-> "Alpha", guid |-> "g1"], [name |-> "Beta", guid |-> "g1"],
    [name |-> "Beta", guid |-> "g2"], [name |-> "Gamma", guid |-> "g2"],
    [name |-> "alpha", guid |-> "g2"] }

\* A file yaml.safe_load and File(**data) accept, with n tests.
GoodFiles(n) == {[status |-> "ok", tests |-> t] : t \in [1..n -> TestPool]}

\* A file File(**data) rejects (ValidationError), a file that raises
\* another exception once opened (yaml.safe_load fails, or the file is
\* empty), and a path glob returns that open() raises on (a directory named
\* *.yaml, a file without read permission).
BadFiles ==
  {[status |-> st, tests |-> <<>>] : st \in {"invalid", "unparsable", "unreadable"}}

FilesWithAtMost(n) == BadFiles \cup UNION {GoodFiles(k) : k \in 0..n}

\* File(**data): the Script objects of the file.  Script (lines 129-137)
\* declares no guid field, so the guid of an entry is dropped.
ParsedTests(file) == [i \in 1..Len(file.tests) |-> [name |-> file.tests[i].name]]

Error(kind, name, file, other) ==
  [kind |-> kind, name |-> name, file |-> file, other |-> other]

\* The error appended by the except branches (lines 724-729, 944-951,
\* 1006-1013, 1075-1082).
LoadError(file, f) ==
  Error(IF file.status = "invalid" THEN "validation" ELSE "unexpected", "", f, f)

\* script_names_in_file (lines 696-698)
NamesInFile(tests) == [i \in 1..Len(tests) |-> tests[i].name]

\* list.count
Count(q, x) == Cardinality({i \in 1..Len(q) : q[i] = x})

\* duplicates (lines 701-706)
InFileDuplicates(names) ==
  IF Len(names) # Cardinality(Range(names))
  THEN {n \in Range(names) : Count(names, n) > 1}
  ELSE {}

\* The orders in which a Python set can be iterated.
Orderings(S) == {q \in [1..Cardinality(S) -> S] : Range(q) = S}

\* Lines 707-710.
InFileErrors(order, f) == [i \in 1..Len(order) |-> Error("in_file", order[i], f, f)]

\* A variant of line 720 that forgets the name.
RecordedNowhere(names, name, f) == names

\* all_script_names[test.name] = file (line 720)
Recorded(names, name, f) == names @@ (name :> f)

\* Lines 713-720: the tests of file f from the i-th on.
RECURSIVE CrossFile(_, _, _, _, _)
CrossFile(names, errs, f, tests, i) ==
  IF i > Len(tests) THEN [names |-> names, errors |-> errs]
  ELSE IF tests[i].name \in DOMAIN names
       THEN CrossFile(names,
                      Append(errs, Error("cross_file", tests[i].name, f, names[tests[i].name])),
                      f, tests, i + 1)
       ELSE CrossFile(Recorded(names, tests[i].name, f), errs, f, tests, i + 1)

\* A variant of the return that ignores errors.
PassResultIgnoringErrors(errs) == TRUE

\* "if errors: return False" (lines 731-743, 953-969, 1084-1094)
PassResult(errs) == errs = <<>>

\* dump_scripts_json returns True when the JSON file is written and False
\* when writing raises (lines 1015-1036), whatever errors holds.
DumpResult(errs, wrote) == wrote

\* re.sub(r"[^\w\s-]", "", name), re.sub(r"[-\s]+", "_", ...), lower()
\* (lines 670-675), on the names of TestPool.
SafeName(name) ==
  IF name = "Alpha" THEN "alpha"
  ELSE IF name = "Beta" THEN "beta"
  ELSE IF name = "Gamma" THEN "gamma"
  ELSE IF name = "alpha" THEN "alpha"
  ELSE name

\* The paths convert_yaml_to_script writes for test t of file f (lines
\* 902-903 and 913-918); a definition file lies in its own technique folder.
ScriptPath(f, t) == [root |-> "osascripts", dir |-> f, file |-> SafeName(t.name), ext |-> "scpt"]
SwiftPath(f, t) == [root |-> "swift", dir |-> f, file |-> SafeName(t.name), ext |-> "swift"]

\* Lines 992-1004.
ScriptsData(f, tests) ==
  [i \in 1..Len(tests) |-> [name |-> tests[i].name, technique |-> f, test_number |-> i]]

\* The steps of build in their order (lines 1423-1465).
BuildSteps == <<"clean", "validate", "convert", "compile", "compile_swift", "docs", "json">>

\* The step build runs after step p.
StepAfter(p) ==
  LET i == CHOOSE i \in 1..Len(BuildSteps) : BuildSteps[i] = p
  IN IF i = Len(BuildSteps) THEN "exit" ELSE BuildSteps[i + 1]

PassReturned(p, ok, errs, n, rep) ==
  [pass |-> p, ok |-> ok, errors |-> errs, files |-> n, reported |-> rep]

\* A pass p left by an exception after n files, with errs collected.
PassRaised(p, errs, n) ==
  [pass |-> p, ok |-> FALSE, errors |-> errs, files |-> n, reported |-> <<>>]

PassIdle ==
  /\ command_name = "none"
  /\ step = "idle"
  /\ pass_i = 1
  /\ errors = <<>>
  /\ files_validated = 0
  /\ all_script_names = <<>>
  /\ converted_count = 0
  /\ artifacts = {}
  /\ scripts_data = <<>>
  /\ generated_count = 0
  /\ passes = <<>>
  /\ exit_status = -1

PassOff ==
  /\ corpus = <<>>
  /\ PassIdle

\* -------------------------------------------------------------------- Init
GuidIdle ==
  /\ run = "first"
  /\ mpc = "assign"
  /\ file_i = 1
  /\ gpc = "idle"
  /\ og_text = <<>>
  /\ text = <<>>
  /\ m_pos = 0
  /\ retries = 0
  /\ existing_guids = {}
  /\ files_updated = 0
  /\ returned = <<>>
  /\ written = {}
  /\ synthesized = {}
  /\ check_i = 1
  /\ guid_locations = EmptyDict
  /\ duplicates = EmptyDict
  /\ exit_code = -1

\* Two files of at most MaxTotalLines lines together, in glob order.
Init ==
  /\ \E a \in 0..MaxTotalLines : \E b \in 0..(MaxTotalLines - a) :
       \E f1 \in TextsOfLen(a), f2 \in TextsOfLen(b) :
         /\ yaml = <<f1, f2>>
         /\ yaml0 = <<f1, f2>>
  /\ GuidIdle
  /\ EmitOff
  /\ PassOff

\* ------------------------------------------------------------ add_guids.py
\* generate_guids_for_yaml, lines 25-43: read the file, record the
\* identifiers it holds, insert the missing guid: lines; the second re.sub
\* then stands at its first match.
ReadAndInsert ==
  /\ mpc = "assign" /\ gpc = "idle" /\ file_i <= Len(yaml)
  /\ og_text' = yaml[file_i]
  /\ existing_guids' = existing_guids \cup ExistingGuidMatches(yaml[file_i])
  /\ text' = InsertGuidLines(yaml[file_i])
  /\ m_pos' = NextMatch(text', 1)
  /\ retries' = 0
  /\ gpc' = "fill"
  /\ UNCHANGED <<yaml, yaml0, run, mpc, file_i, files_updated, returned,
                 written, synthesized, check_i, guid_locations, duplicates,
                 exit_code>>
  /\ UNCHANGED <<emitVars, passVars>>

\* replace_guid, lines 50-52: get_guid() returned a seen identifier. The
\* while loop has no bound of its own, so the count of its rounds wraps.
ReplaceGuidCollide ==
  /\ mpc = "assign" /\ gpc = "fill" /\ m_pos # 0
  /\ \E new_guid \in Uuid7 : Lower(new_guid) \in existing_guids
  /\ retries' = (retries + 1) % (MaxRetries + 1)
  /\ UNCHANGED <<yaml, yaml0, run, mpc, file_i, gpc, og_text, text, m_pos,
                 existing_guids, files_updated, returned, written,
                 synthesized, check_i, guid_locations, duplicates, exit_code>>
  /\ UNCHANGED <<emitVars, passVars>>

\* replace_guid without its while loop: whatever get_guid() returned is
\* recorded and written after guid:.
ReplaceGuidAcceptUnchecked ==
  /\ mpc = "assign" /\ gpc = "fill" /\ m_pos # 0
  /\ \E new_guid \in Uuid7 :
       /\ existing_guids' = existing_guids \cup {Lower(new_guid)}
       /\ text' = [text EXCEPT ![m_pos] = Filled(@, new_guid)]
       /\ synthesized' = synthesized \cup {new_guid}
  /\ m_pos' = NextMatch(text, m_pos + 1)
  /\ retries' = 0
  /\ UNCHANGED <<yaml, yaml0, run, mpc, file_i, gpc, og_text, files_updated,
                 returned, written, check_i, guid_locations, duplicates,
                 exit_code>>
  /\ UNCHANGED <<emitVars, passVars>>

\* replace_guid with a loop that does not call get_guid() again: after a
\* collision the identifier drawn first is tested over and over.
ReplaceGuidAcceptFirstDraw ==
  /\ mpc = "assign" /\ gpc = "fill" /\ m_pos # 0
  /\ retries = 0
  /\ \E new_guid \in Uuid7 :
       /\ Lower(new_guid) \notin existing_guids
       /\ existing_guids' = existing_guids \cup {Lower(new_guid)}
       /\ text' = [text EXCEPT ![m_pos] = Filled(@, new_guid)]
       /\ synthesized' = synthesized \cup {new_guid}
  /\ m_pos' = NextMatch(text, m_pos + 1)
  /\ retries' = 0
  /\ UNCHANGED <<yaml, yaml0, run, mpc, file_i, gpc, og_text, files_updated,
                 returned, written, check_i, guid_locations, duplicates,
                 exit_code>>
  /\ UNCHANGED <<emitVars, passVars>>

\* replace_guid, lines 48-54: get_guid() returned an identifier not seen,
\* which is recorded and written after guid:.
ReplaceGuidAccept ==
  /\ mpc = "assign" /\ gpc = "fill" /\ m_pos # 0
  /\ \E new_guid \in Uuid7 :
       /\ Lower(new_guid) \notin existing_guids
       /\ existing_guids' = existing_guids \cup {Lower(new_guid)}
       /\ text' = [text EXCEPT ![m_pos] = Filled(@, new_guid)]
       /\ synthesized' = synthesized \cup {new_guid}
  /\ m_pos' = NextMatch(text, m_pos + 1)
  /\ retries' = 0
  /\ UNCHANGED <<yaml, yaml0, run, mpc, file_i, gpc, og_text, files_updated,
                 returned, written, check_i, guid_locations, duplicates,
                 exit_code>>
  /\ UNCHANGED <<emitVars, passVars>>

\* generate_guids_for_yaml, lines 63-68, and the caller's lines 123-125.
WriteBack ==
  /\ mpc = "assign" /\ gpc = "fill" /\ m_pos = 0
  /\ IF text # og_text
     THEN /\ yaml' = [yaml EXCEPT ![file_i] = text]
          /\ written' = written \cup {file_i}
          /\ returned' = Append(returned, TRUE)
          /\ files_updated' = files_updated + 1
     ELSE /\ returned' = Append(returned, FALSE)
          /\ UNCHANGED <<yaml, written, files_updated>>
  /\ file_i' = file_i + 1
  /\ gpc' = "idle"
  /\ og_text' = <<>>
  /\ text' = <<>>
  /\ UNCHANGED <<yaml0, run, mpc, m_pos, retries, existing_guids, synthesized,
                 check_i, guid_locations, duplicates, exit_code>>
  /\ UNCHANGED <<emitVars, passVars>>

\* add_guids_to_yaml_files returns (line 127); main() goes on to the
\* duplicate check (lines 143-145).
AssignDone ==
  /\ mpc = "assign" /\ gpc = "idle" /\ file_i > Len(yaml)
  /\ mpc' = "check"
  /\ check_i' = 1
  /\ guid_locations' = EmptyDict
  /\ UNCHANGED <<yaml, yaml0, run, file_i, gpc, og_text, text, m_pos, retries,
                 existing_guids, files_updated, returned, written,
                 synthesized, duplicates, exit_code>>
  /\ UNCHANGED <<emitVars, passVars>>

\* check_for_duplicate_guids opening the file it scans for writing.
CheckFileTruncating ==
  /\ mpc = "check" /\ check_i <= Len(yaml)
  /\ guid_locations' = ScanFrom(guid_locations, check_i, yaml[check_i], 1)
  /\ yaml' = [yaml EXCEPT ![check_i] = <<>>]
  /\ check_i' = check_i + 1
  /\ UNCHANGED <<yaml0, run, mpc, file_i, gpc, og_text, text, m_pos,
                 retries, existing_guids, files_updated, returned, written,
                 synthesized, duplicates, exit_code>>
  /\ UNCHANGED <<emitVars, passVars>>

\* check_for_duplicate_guids, lines 84-95: one file.
CheckFile ==
  /\ mpc = "check" /\ check_i <= Len(yaml)
  /\ guid_locations' = ScanFrom(guid_locations, check_i, yaml[check_i], 1)
  /\ check_i' = check_i + 1
  /\ UNCHANGED <<yaml, yaml0, run, mpc, file_i, gpc, og_text, text, m_pos,
                 retries, existing_guids, files_updated, returned, written,
                 synthesized, duplicates, exit_code>>
  /\ UNCHANGED <<emitVars, passVars>>

\* check_for_duplicate_guids, lines 97-100.
CheckDone ==
  /\ mpc = "check" /\ check_i > Len(yaml)
  /\ duplicates' = Duplicates(guid_locations)
  /\ mpc' = "exit"
  /\ UNCHANGED <<yaml, yaml0, run, file_i, gpc, og_text, text, m_pos, retries,
                 existing_guids, files_updated, returned, written,
                 synthesized, check_i, guid_locations, exit_code>>
  /\ UNCHANGED <<emitVars, passVars>>

\* A main() that looks at the number of updated files before the duplicates.
ExitCodeUpdatedFirst(dups, updated) ==
  IF updated > 0 THEN 1 ELSE IF DOMAIN dups # {} THEN 2 ELSE 0

\* main(), lines 147-163.
ExitCode(dups, updated) ==
  IF DOMAIN dups # {} THEN 2 ELSE IF updated > 0 THEN 1 ELSE 0

Exit ==
  /\ mpc = "exit"
  /\ exit_code' = ExitCode(duplicates, files_updated)
  /\ mpc' = "done"
  /\ UNCHANGED <<yaml, yaml0, run, file_i, gpc, og_text, text, m_pos, retries,
                 existing_guids, files_updated, returned, written,
                 synthesized, check_i, guid_locations, duplicates>>
  /\ UNCHANGED <<emitVars, passVars>>

\* The program is run again on the corpus the first run left (lines 113-118).
MainAgain ==
  /\ mpc = "done" /\ run = "first"
  /\ run' = "second"
  /\ mpc' = "assign"
  /\ file_i' = 1
  /\ existing_guids' = {}
  /\ files_updated' = 0
  /\ returned' = <<>>
  /\ written' = {}
  /\ synthesized' = {}
  /\ exit_code' = -1
  /\ UNCHANGED <<yaml, yaml0, gpc, og_text, text, m_pos, retries, check_i,
                 guid_locations, duplicates>>
  /\ UNCHANGED <<emitVars, passVars>>

Next ==
  \/ ReadAndInsert
  \/ ReplaceGuidCollide
  \/ ReplaceGuidAccept
  \/ WriteBack
  \/ AssignDone
  \/ CheckFile
  \/ CheckDone
  \/ Exit
  \/ MainAgain

Spec == Init /\ [][Next]_vars

\* The run of main() goes on while it has a step to take, and a get_guid()
\* that can return an identifier not seen does so after finitely many calls.
FairSpec == Spec /\ WF_vars(Next) /\ WF_vars(ReplaceGuidAccept)

\* --------------------------------------------------- emitting and running
GuidOff ==
  /\ yaml = <<>>
  /\ yaml0 = <<>>
  /\ GuidIdle

EmitInit ==
  /\ script \in Scripts
  /\ script_art = NoArtifact
  /\ wrapper_art = NoArtifact
  /\ cli = NoRun
  /\ GuidOff
  /\ PassOff

\* convert_yaml_to_script, lines 897-906, for an AppleScript test.
WriteOsascript ==
  /\ script.language = "AppleScript" /\ script_art = NoArtifact
  /\ script_art' = ToOsascript(script)
  /\ UNCHANGED <<script, wrapper_art, cli>>
  /\ UNCHANGED <<guidVars, passVars>>

\* convert_yaml_to_script, lines 899-906, for a JavaScript test.
WriteJavascript ==
  /\ script.language = "JavaScript" /\ script_art = NoArtifact
  /\ script_art' = ToJavascript(script)
  /\ UNCHANGED <<script, wrapper_art, cli>>
  /\ UNCHANGED <<guidVars, passVars>>

\* convert_yaml_to_script, lines 912-927.
WriteSwiftWrapper ==
  /\ script.language = "AppleScript"
  /\ script_art # NoArtifact /\ wrapper_art = NoArtifact
  /\ wrapper_art' = ToSwiftWrapper(script)
  /\ UNCHANGED <<script, script_art, cli>>
  /\ UNCHANGED <<guidVars, passVars>>

\* convert_yaml_to_script, lines 929-942.
WriteSwiftJavascriptWrapper ==
  /\ script.language = "JavaScript"
  /\ script_art # NoArtifact /\ wrapper_art = NoArtifact
  /\ wrapper_art' = ToSwiftJavascriptWrapper(script)
  /\ UNCHANGED <<script, script_art, cli>>
  /\ UNCHANGED <<guidVars, passVars>>

\* osascript runs the emitted .scpt with some arguments.
RunOsascript ==
  /\ script_art.kind = "osascript" /\ wrapper_art # NoArtifact /\ cli = NoRun
  /\ \E argv \in Argvs : cli' = RunAppleScript(script_art, argv)
  /\ UNCHANGED <<script, script_art, wrapper_art>>
  /\ UNCHANGED <<guidVars, passVars>>

\* osascript runs the emitted .js with some arguments.
RunJavascript ==
  /\ script_art.kind = "javascript" /\ wrapper_art # NoArtifact /\ cli = NoRun
  /\ \E argv \in Argvs : cli' = RunJavaScript(script_art, argv)
  /\ UNCHANGED <<script, script_art, wrapper_art>>
  /\ UNCHANGED <<guidVars, passVars>>

\* The compiled Swift wrapper is run with some arguments.
RunWrapper ==
  /\ wrapper_art # NoArtifact /\ cli = NoRun
  /\ \E argv \in Argvs : cli' = RunSwift(wrapper_art, argv)
  /\ UNCHANGED <<script, script_art, wrapper_art>>
  /\ UNCHANGED <<guidVars, passVars>>

EmitNext ==
  \/ WriteOsascript
  \/ WriteJavascript
  \/ WriteSwiftWrapper
  \/ WriteSwiftJavascriptWrapper
  \/ RunOsascript
  \/ RunJavascript
  \/ RunWrapper

EmitSpec == EmitInit /\ [][EmitNext]_vars

\* ------------------------------------------------- passes and commands
\* Three definition files with at most MaxTotalTests tests together.
PassInit ==
  /\ \E a \in 0..MaxTotalTests : \E b \in 0..(MaxTotalTests - a) :
       \E f1 \in FilesWithAtMost(a), f2 \in FilesWithAtMost(b),
          f3 \in FilesWithAtMost(MaxTotalTests - a - b) :
         corpus = <<f1, f2, f3>>
  /\ PassIdle
  /\ GuidOff
  /\ EmitOff

\* A build that goes on to its next step whatever the step returned.
ProceedAfterFailure(p, ok) ==
  IF command_name = "build" /\ StepAfter(p) # "exit"
  THEN step' = StepAfter(p) /\ exit_status' = -1
  ELSE step' = "exit" /\ exit_status' = IF ok THEN 0 ELSE 1

\* What a command does when a pass p has returned ok: build goes on to its
\* next step when ok, every other case ends the command (typer.Exit(1) when
\* not ok).
Proceed(p, ok) ==
  IF command_name = "build" /\ ok /\ StepAfter(p) # "exit"
  THEN step' = StepAfter(p) /\ exit_status' = -1
  ELSE step' = "exit" /\ exit_status' = IF ok THEN 0 ELSE 1

\* validate (lines 1316-1330)
ValidateCommand ==
  /\ command_name = "none"
  /\ command_name' = "validate" /\ step' = "validate"
  /\ UNCHANGED <<corpus, pass_i, errors, files_validated, all_script_names,
                 converted_count, artifacts, scripts_data, generated_count,
                 passes, exit_status>>
  /\ UNCHANGED <<guidVars, emitVars>>

\* convert (lines 1333-1351)
ConvertCommand ==
  /\ command_name = "none"
  /\ command_name' = "convert" /\ step' = "convert"
  /\ UNCHANGED <<corpus, pass_i, errors, files_validated, all_script_names,
                 converted_count, artifacts, scripts_data, generated_count,
                 passes, exit_status>>
  /\ UNCHANGED <<guidVars, emitVars>>

\* generate_docs (lines 1660-1678)
GenerateDocsCommand ==
  /\ command_name = "none"
  /\ command_name' = "generate_docs" /\ step' = "docs"
  /\ UNCHANGED <<corpus, pass_i, errors, files_validated, all_script_names,
                 converted_count, artifacts, scripts_data, generated_count,
                 passes, exit_status>>
  /\ UNCHANGED <<guidVars, emitVars>>

\* dump_json (lines 1640-1657)
DumpJsonCommand ==
  /\ command_name = "none"
  /\ command_name' = "dump_json" /\ step' = "json"
  /\ UNCHANGED <<corpus, pass_i, errors, files_validated, all_script_names,
                 converted_count, artifacts, scripts_data, generated_count,
                 passes, exit_status>>
  /\ UNCHANGED <<guidVars, emitVars>>

\* build (lines 1408-1422)
BuildCommand ==
  /\ command_name = "none"
  /\ command_name' = "build" /\ step' = "clean"
  /\ UNCHANGED <<corpus, pass_i, errors, files_validated, all_script_names,
                 converted_count, artifacts, scripts_data, generated_count,
                 passes, exit_status>>
  /\ UNCHANGED <<guidVars, emitVars>>

\* build, step 0 (lines 1423-1434): clean returns or raises.
Clean ==
  /\ step = "clean"
  /\ \E ok \in BOOLEAN :
       /\ passes' = Append(passes, PassReturned("clean", ok, <<>>, 0, <<>>))
       /\ Proceed("clean", ok)
  /\ artifacts' = {}
  /\ UNCHANGED <<corpus, command_name, pass_i, errors, files_validated, all_script_names,
                 converted_count, scripts_data, generated_count>>
  /\ UNCHANGED <<guidVars, emitVars>>

\* validate_yaml_files, the loop body (lines 689-729) for one file.  The
\* file is opened outside the try block (line 690): when open() raises, the
\* exception leaves validate_yaml_files and ends the command.
ValidateFile ==
  /\ step = "validate" /\ pass_i <= Len(corpus)
  /\ LET file == corpus[pass_i]
         tests == ParsedTests(file)
     IN IF file.status = "unreadable"
        THEN /\ passes' = Append(passes, PassRaised("validate", errors, pass_i - 1))
             /\ step' = "exit"
             /\ exit_status' = 1
             /\ pass_i' = 1
             /\ errors' = <<>>
             /\ UNCHANGED <<all_script_names, files_validated>>
        ELSE /\ IF file.status = "ok"
                THEN \E order \in Orderings(InFileDuplicates(NamesInFile(tests))) :
                       LET r == CrossFile(all_script_names,
                                          errors \o InFileErrors(order, pass_i),
                                          pass_i, tests, 1)
                       IN /\ errors' = r.errors
                          /\ all_script_names' = r.names
                          /\ files_validated' = files_validated + 1
                ELSE /\ errors' = Append(errors, LoadError(file, pass_i))
                     /\ UNCHANGED <<all_script_names, files_validated>>
             /\ pass_i' = pass_i + 1
             /\ UNCHANGED <<step, passes, exit_status>>
  /\ UNCHANGED <<corpus, command_name, converted_count, artifacts, scripts_data,
                 generated_count>>
  /\ UNCHANGED <<guidVars, emitVars>>

\* validate_yaml_files returns (lines 731-743).
ValidateEnd ==
  /\ step = "validate" /\ pass_i > Len(corpus)
  /\ passes' = Append(passes,
                 PassReturned("validate", PassResult(errors), errors, pass_i - 1,
                              IF PassResult(errors)
                              THEN <<files_validated, Cardinality(DOMAIN all_script_names)>>
                              ELSE <<>>))
  /\ Proceed("validate", PassResult(errors))
  /\ pass_i' = 1
  /\ errors' = <<>>
  /\ UNCHANGED <<corpus, command_name, files_validated, all_script_names, converted_count,
                 artifacts, scripts_data, generated_count>>
  /\ UNCHANGED <<guidVars, emitVars>>

\* convert_yaml_to_script, the loop body (lines 874-951) for one file.
ConvertFile ==
  /\ step = "convert" /\ pass_i <= Len(corpus)
  /\ LET file == corpus[pass_i]
         tests == ParsedTests(file)
     IN IF file.status = "ok"
        THEN /\ artifacts' = artifacts
                  \cup {ScriptPath(pass_i, tests[i]) : i \in 1..Len(tests)}
                  \cup {SwiftPath(pass_i, tests[i]) : i \in 1..Len(tests)}
             /\ converted_count' = converted_count + Len(tests)
             /\ UNCHANGED errors
        ELSE /\ errors' = Append(errors, LoadError(file, pass_i))
             /\ UNCHANGED <<artifacts, converted_count>>
  /\ pass_i' = pass_i + 1
  /\ UNCHANGED <<corpus, command_name, step, files_validated, all_script_names,
                 scripts_data, generated_count, passes, exit_status>>
  /\ UNCHANGED <<guidVars, emitVars>>

\* convert_yaml_to_script returns (lines 953-969).
ConvertEnd ==
  /\ step = "convert" /\ pass_i > Len(corpus)
  /\ passes' = Append(passes,
                 PassReturned("convert", PassResult(errors), errors, pass_i - 1,
                              <<converted_count>>))
  /\ Proceed("convert", PassResult(errors))
  /\ pass_i' = 1
  /\ errors' = <<>>
  /\ UNCHANGED <<corpus, command_name, files_validated, all_script_names, converted_count,
                 artifacts, scripts_data, generated_count>>
  /\ UNCHANGED <<guidVars, emitVars>>

\* build, step 3 (lines 1446-1449): osacompile succeeds on every script, or
\* fails on one.
CompileOsascript ==
  /\ step = "compile"
  /\ \E ok \in BOOLEAN :
       /\ passes' = Append(passes, PassReturned("compile", ok, <<>>, 0, <<>>))
       /\ Proceed("compile", ok)
  /\ UNCHANGED <<corpus, command_name, pass_i, errors, files_validated, all_script_names,
                 converted_count, artifacts, scripts_data, generated_count>>
  /\ UNCHANGED <<guidVars, emitVars>>

\* build, step 4 (lines 1451-1455): swiftc succeeds on every wrapper, or
\* fails on one.
CompileSwift ==
  /\ step = "compile_swift"
  /\ \E ok \in BOOLEAN :
       /\ passes' = Append(passes, PassReturned("compile_swift", ok, <<>>, 0, <<>>))
       /\ Proceed("compile_swift", ok)
  /\ UNCHANGED <<corpus, command_name, pass_i, errors, files_validated, all_script_names,
                 converted_count, artifacts, scripts_data, generated_count>>
  /\ UNCHANGED <<guidVars, emitVars>>

\* generate_markdown_docs, the loop body (lines 1051-1082) for one file.
DocsFile ==
  /\ step = "docs" /\ pass_i <= Len(corpus)
  /\ LET file == corpus[pass_i]
     IN IF file.status = "ok"
        THEN generated_count' = generated_count + 1 /\ UNCHANGED errors
        ELSE errors' = Append(errors, LoadError(file, pass_i)) /\ UNCHANGED generated_count
  /\ pass_i' = pass_i + 1
  /\ UNCHANGED <<corpus, command_name, step, files_validated, all_script_names,
                 converted_count, artifacts, scripts_data, passes, exit_status>>
  /\ UNCHANGED <<guidVars, emitVars>>

\* generate_markdown_docs returns (lines 1084-1094).
DocsEnd ==
  /\ step = "docs" /\ pass_i > Len(corpus)
  /\ passes' = Append(passes,
                 PassReturned("docs", PassResult(errors), errors, pass_i - 1,
                              <<generated_count>>))
  /\ Proceed("docs", PassResult(errors))
  /\ pass_i' = 1
  /\ errors' = <<>>
  /\ UNCHANGED <<corpus, command_name, files_validated, all_script_names, converted_count,
                 artifacts, scripts_data, generated_count>>
  /\ UNCHANGED <<guidVars, emitVars>>

\* dump_scripts_json, the loop body (lines 980-1013) for one file.
DumpFile ==
  /\ step = "json" /\ pass_i <= Len(corpus)
  /\ LET file == corpus[pass_i]
     IN IF file.status = "ok"
        THEN /\ scripts_data' = scripts_data \o ScriptsData(pass_i, ParsedTests(file))
             /\ UNCHANGED errors
        ELSE /\ errors' = Append(errors, LoadError(file, pass_i))
             /\ UNCHANGED scripts_data
  /\ pass_i' = pass_i + 1
  /\ UNCHANGED <<corpus, command_name, step, files_validated, all_script_names,
                 converted_count, artifacts, generated_count, passes, exit_status>>
  /\ UNCHANGED <<guidVars, emitVars>>

\* dump_scripts_json writes the JSON file and returns (lines 1015-1036).
DumpEnd ==
  /\ step = "json" /\ pass_i > Len(corpus)
  /\ \E wrote \in BOOLEAN :
       /\ passes' = Append(passes,
                      PassReturned("json", DumpResult(errors, wrote), errors,
                                   pass_i - 1, <<Len(scripts_data)>>))
       /\ Proceed("json", DumpResult(errors, wrote))
  /\ pass_i' = 1
  /\ errors' = <<>>
  /\ UNCHANGED <<corpus, command_name, files_validated, all_script_names, converted_count,
                 artifacts, scripts_data, generated_count>>
  /\ UNCHANGED <<guidVars, emitVars>>

PassNext ==
  \/ ValidateCommand
  \/ ConvertCommand
  \/ GenerateDocsCommand
  \/ DumpJsonCommand
  \/ BuildCommand
  \/ Clean
  \/ ValidateFile
  \/ ValidateEnd
  \/ ConvertFile
  \/ ConvertEnd
  \/ CompileOsascript
  \/ CompileSwift
  \/ DocsFile
  \/ DocsEnd
  \/ DumpFile
  \/ DumpEnd

PassSpec == PassInit /\ [][PassNext]_vars

\* ------------------------------------------- both programs on their corpora
\* add_guids.py on its corpus, or a command of main.py on its corpus.
ProgramInit == Init \/ PassInit

\* The program that was started takes the steps.
ProgramNext ==
  \/ yaml # <<>> /\ Next
  \/ corpus # <<>> /\ PassNext

ProgramSpec == ProgramInit /\ [][ProgramNext]_vars

\* ------------------------------------------------------------------ claims
\* The identifiers, in small letters, that the files of corpus c hold.
CorpusGuids(c) == UNION {ExistingGuidMatches(c[f]) : f \in 1..Len(c)}

\* C1: every identifier synthesized by one run of the assigner differs,
\* whatever the case of its letters, from every identifier that a file of
\* the corpus held before the run, the files processed later included.
C1_SynthesizedAvoidCorpus ==
  run = "first" => \A g \in synthesized : Lower(g) \notin CorpusGuids(yaml0)

\* C2: the second of two runs in a row modifies no file: each call of
\* generate_guids_for_yaml returns False and files_updated stays 0.
C2_SecondRunChangesNothing ==
  run = "second" =>
    /\ files_updated = 0
    /\ written = {}
    /\ \A i \in 1..Len(returned) : returned[i] = FALSE

\* The second run is over, after a first run that rewrote a file.
C2_Witness ==
  /\ run = "second" /\ mpc = "done"
  /\ Len(returned) = Len(yaml)
  /\ yaml # yaml0

\* The lines of the entry whose name line is line i of t.
RECURSIVE EntryEnd(_, _)
EntryEnd(t, i) ==
  IF i + 1 > Len(t) \/ t[i + 1].k = "name" THEN i ELSE EntryEnd(t, i + 1)

NameLines(t) == {i \in 1..Len(t) : t[i].k = "name"}

ValidGuidLine(l) == l.k = "guid" /\ l.id # NoId /\ l.id.ver = "7" /\ ~l.junk

\* The file has test entries, every guid: line of it lies in an entry, and
\* every entry has one guid: line, with a version-7-shaped identifier.
EveryEntryHasValidGuid(t) ==
  /\ NameLines(t) # {}
  /\ \A n \in 1..Len(t) : t[n].k = "guid" => \E i \in NameLines(t) : i < n
  /\ \A i \in NameLines(t) :
       /\ Cardinality({n \in i..EntryEnd(t, i) : t[n].k = "guid"}) = 1
       /\ \E n \in i..EntryEnd(t, i) : ValidGuidLine(t[n])

\* C3: a file whose every test entry carries a structurally valid identifier,
\* wherever the field sits in the entry, is left unchanged and unwritten,
\* and generate_guids_for_yaml returns False for it.
C3_ValidFileUntouched ==
  run = "first" =>
    \A f \in 1..Len(returned) :
      EveryEntryHasValidGuid(yaml0[f]) =>
        /\ returned[f] = FALSE
        /\ f \notin written
        /\ yaml[f] = yaml0[f]

\* The places (file, line) where the corpus c holds identifier g, whatever
\* the case of its letters.
Occurrences(c, g) ==
  {loc \in UNION {{<<f, n>> : n \in 1..Len(c[f])} : f \in 1..Len(c)} :
     /\ WellFormedGuidLine(c[loc[1]][loc[2]])
     /\ Lower(c[loc[1]][loc[2]].id) = g}

\* C7: check_for_duplicate_guids reports each identifier that the corpus
\* holds two or more times, compared without regard to case, once, with all
\* its places, and reports no identifier that the corpus holds once.
C7_DuplicateGuidsReported ==
  mpc \in {"exit", "done"} =>
    /\ \A k \in DOMAIN duplicates : k = Lower(k)
    /\ \A g \in CorpusGuids(yaml) \cup DOMAIN duplicates :
         IF Cardinality(Occurrences(yaml, g)) >= 2
         THEN /\ g \in DOMAIN duplicates
              /\ Len(duplicates[g]) = Cardinality(Occurrences(yaml, g))
              /\ Range(duplicates[g]) = Occurrences(yaml, g)
         ELSE g \notin DOMAIN duplicates

\* An identifier written in small letters in one file and in capitals in the
\* other is reported with both places, beside one that occurs once.
C7_Witness ==
  /\ mpc = "done"
  /\ \E g \in DOMAIN duplicates :
       /\ \E i, j \in 1..Len(duplicates[g]) : duplicates[g][i][1] # duplicates[g][j][1]
       /\ \E i \in 1..Len(duplicates[g]) :
            yaml[duplicates[g][i][1]][duplicates[g][i][2]].id.up
  /\ \E g \in CorpusGuids(yaml) : g \notin DOMAIN duplicates

\* The artifacts emitted so far for the test definition.
Emitted == {a \in {script_art, wrapper_art} : a # NoArtifact}

\* C4: for a test with n declared arguments every emitter (AppleScript
\* script, JavaScript script, both Swift wrappers) emits an entry routine
\* whose parameter list is the n declared names in declaration order, the
\* same in all emitters.  (Stated for n >= 1.)
C4_EveryEmitterListsParameters ==
  Len(script.args) >= 1 =>
    \A a \in Emitted : a.has_entry /\ a.params = Keys(script.args)

\* The declared default of an argument, as a value.
DefaultValue(d) ==
  IF d.kind = "str" THEN Value("text", d.v)
  ELSE IF d.kind = "bool" THEN Value("bool", IF d.v = "True" THEN "true" ELSE "false")
  ELSE Value("number", d.v)

\* Value v is what the command-line text x says: the text itself, the number
\* it spells or the boolean it spells.
Denotes(v, x) ==
  \/ v = Value("text", x)
  \/ v.kind = "number" /\ v.v \in {IntOf(x), DoubleOf(x)}
  \/ v.kind = "bool" /\ v.v = Lowercased(x)

\* An artifact with a command-line dispatch was run, and not for its help.
DispatchRan ==
  /\ cli.ran # "none"
  /\ (cli.ran = "script" => script_art.dispatch.present)
  /\ (cli.argv = <<>> \/ cli.argv[1] # "-h")

\* C5 as claimed: the argument at position i resolves to the i-th positional
\* value when k >= i and to its declared default when k < i, and the entry
\* routine is invoked once with the resolved values in declared order.
C5_PositionalValueOrDefault ==
  DispatchRan =>
    /\ Len(cli.main_calls) = 1
    /\ Len(cli.main_calls[1]) = Len(script.args)
    /\ \A i \in 1..Len(script.args) :
         IF Len(cli.argv) >= i
         THEN Denotes(cli.main_calls[1][i], cli.argv[i])
         ELSE cli.main_calls[1][i] = DefaultValue(script.args[i].default)

\* The i-th positional value x as the artifact takes it: the AppleScript
\* script as text; a Swift wrapper as the kind of the declared default d.
Taken(ran, d, x) ==
  IF ran = "script" \/ d.kind = "str" THEN Value("text", x)
  ELSE IF d.kind = "bool"
       THEN IF Lowercased(x) = "true" THEN Value("bool", "true") ELSE Value("bool", "false")
  ELSE IF d.kind = "int"
       THEN IF IntOf(x) # "nil" THEN Value("number", IntOf(x)) ELSE DefaultValue(d)
  ELSE IF DoubleOf(x) # "nil" THEN Value("number", DoubleOf(x)) ELSE DefaultValue(d)

\* C5 (amended): when the first argument is not the help flag, the argument
\* at position i resolves to its declared default when k < i and, when
\* k >= i, to the i-th positional value, which the AppleScript script takes
\* as text and a Swift wrapper converts to the argument's kind (the declared
\* default when a number does not parse); the entry routine is invoked once
\* with the resolved values in declared order.
C5_PositionalConvertedOrDefault ==
  DispatchRan =>
    cli.main_calls =
      << [i \in 1..Len(script.args) |->
            IF Len(cli.argv) >= i
            THEN Taken(cli.ran, script.args[i].default, cli.argv[i])
            ELSE DefaultValue(script.args[i].default)] >>

\* A wrapper with an integer and a second argument was run with one
\* positional argument that is no integer.
C5_Witness ==
  /\ DispatchRan
  /\ cli.ran = "wrapper"
  /\ Len(script.args) = 2
  /\ script.args[1].default.kind = "int"
  /\ cli.argv = <<"/var">>
  /\ Len(cli.main_calls) = 1

\* ---- claims about one run of the assigner (Spec)
\* A step of the second substitution that writes an identifier after guid:.
Spliced == gpc = "fill" /\ gpc' = "fill" /\ text' # text

\* C21: the identifier a step splices into the text was not in the shared
\* set when it was chosen, is in the set after the step, and was not
\* synthesized before in this run; so the identifiers synthesized in one run
\* are pairwise distinct, whatever the generator returns.
C21_SplicedWasUnseen ==
  [][ Spliced =>
        /\ Lower(text'[m_pos].id) \notin existing_guids
        /\ Lower(text'[m_pos].id) \in existing_guids'
        /\ text'[m_pos].id \notin synthesized
        /\ existing_guids \subseteq existing_guids' ]_vars

\* Both files were rewritten in the first run, with two identifiers
\* synthesized.
C21_Witness ==
  /\ run = "first"
  /\ Cardinality(written) = 2
  /\ Cardinality(synthesized) >= 2

\* Some test entry of text t has no guid: line with a version-7-shaped
\* identifier.
SomeEntryLacksValidGuid(t) ==
  \E i \in NameLines(t) : ~\E n \in i..EntryEnd(t, i) : ValidGuidLine(t[n])

\* C22: generate_guids_for_yaml ends for a file either with True and the
\* file written or with False and the file not written, and with True
\* exactly when some test entry of the file lacked a structurally valid
\* identifier.
C22_RewrittenIffEntryLacksGuid ==
  run = "first" =>
    \A f \in 1..Len(returned) :
      /\ returned[f] <=> f \in written
      /\ returned[f] <=> SomeEntryLacksValidGuid(yaml0[f])

\* The guid: lines of text t that hold a version-7-shaped identifier.
RECURSIVE ValidGuidLinesOf(_)
ValidGuidLinesOf(t) ==
  IF t = <<>> THEN <<>>
  ELSE IF ValidGuidLine(Head(t)) THEN <<Head(t)>> \o ValidGuidLinesOf(Tail(t))
  ELSE ValidGuidLinesOf(Tail(t))

\* C23: the assigner leaves every structurally valid identifier as it is,
\* duplicated or not: the first substitution keeps the valid guid: lines of
\* the file, a step of the second substitution changes one line, which held
\* no valid identifier, and a file is only ever overwritten with that text.
C23_ValidIdentifierKept ==
  [][ /\ (gpc = "idle" /\ gpc' = "fill") =>
           ValidGuidLinesOf(text') = ValidGuidLinesOf(yaml[file_i])
      /\ Spliced =>
           /\ ~ValidGuidLine(text[m_pos])
           /\ Len(text') = Len(text)
           /\ \A n \in 1..Len(text) : n # m_pos => text'[n] = text[n]
      /\ yaml' # yaml => yaml' = [yaml EXCEPT ![file_i] = text] ]_vars

\* The first run rewrote a file of a corpus that holds a valid identifier
\* twice, and the duplicate check reported it.
C23_Witness ==
  /\ run = "first" /\ mpc = "done"
  /\ written # {}
  /\ exit_code = 2
  /\ \E g \in DOMAIN duplicates : g.ver = "7" /\ Cardinality(Occurrences(yaml0, g)) >= 2

\* ---- claims about the rewriting of a file (Spec)
\* The column of the fields of a test entry: that of its name key.
EntryLine(l) == l.ind \in {<<"dash", "sp">>, <<"sp", "sp">>}

\* A line that is neither the name line nor the identifier line of an entry.
OtherContent(l) == ~(l.k \in {"name", "guid"} /\ EntryLine(l))

RECURSIVE OtherContentOf(_)
OtherContentOf(t) ==
  IF t = <<>> THEN <<>>
  ELSE IF OtherContent(Head(t)) THEN <<Head(t)>> \o OtherContentOf(Tail(t))
  ELSE OtherContentOf(Tail(t))

\* C11: when both substitutions of generate_guids_for_yaml are done, the
\* lines of the text that are neither name lines nor identifier lines of
\* entries are those of the text read, unchanged and in the same order.
C11_OtherLinesPreserved ==
  (mpc = "assign" /\ gpc = "fill" /\ m_pos = 0) =>
    OtherContentOf(text) = OtherContentOf(og_text)

\* ---- claims about the emitted body (EmitSpec)
\* The artifacts written so far.
WrittenArtifacts == {a \in {script_art, wrapper_art} : a.kind # "none"}

\* The tokens of the lines of a body.
TokensOf(lines) == UNION {Range(lines[i]) : i \in 1..Len(lines)}

\* C12: for a test with declared arguments, the body of every emitted
\* artifact holds no placeholder of a declared argument name.
C12_NoDeclaredPlaceholderLeft ==
  \A a \in WrittenArtifacts :
    script.args # <<>> =>
      \A n \in Range(Keys(script.args)) : Placeholder(n) \notin TokensOf(a.body)

\* ---- claims about the dispatch of an emitted artifact (EmitSpec)
HelpAsked == cli.argv # <<>> /\ cli.argv[1] = "-h"

\* C13: whatever artifact is run, with -h as its first argument the help
\* routine runs and the entry routine is not invoked; otherwise the entry
\* routine is invoked exactly once.
C13_HelpFlagShortCircuits ==
  cli.ran # "none" =>
    IF HelpAsked
    THEN cli.help_shown /\ cli.main_calls = <<>>
    ELSE Len(cli.main_calls) = 1

Coerced(d, x) ==
  IF d.kind = "str" THEN Value("text", x)
  ELSE IF d.kind = "bool"
       THEN Value("bool", IF Lowercased(x) = "true" THEN "true" ELSE "false")
  ELSE IF d.kind = "int"
       THEN IF IntOf(x) # "nil" THEN Value("number", IntOf(x)) ELSE DefaultValue(d)
  ELSE IF DoubleOf(x) # "nil" THEN Value("number", DoubleOf(x)) ELSE DefaultValue(d)

\* C15: in every artifact with a dispatch, a supplied positional argument
\* reaches the entry routine coerced to the kind of its declared default: a
\* boolean is true exactly when the text is "true" in any case, a number is
\* the parsed text, or the declared default when the text does not parse.
C15_SuppliedArgumentCoerced ==
  DispatchRan =>
    /\ Len(cli.main_calls) = 1
    /\ \A i \in 1..Len(script.args) :
         Len(cli.argv) >= i =>
           cli.main_calls[1][i] = Coerced(script.args[i].default, cli.argv[i])

\* ---- claims about placeholders and framework lines (EmitSpec)
\* The places of token tok in some lines.
Positions(lines, tok) ==
  UNION { {<<i, j>> : j \in {x \in 1..Len(lines[i]) : lines[i][x] = tok}}
          : i \in 1..Len(lines) }

\* The names of the placeholders of the command that the test does not
\* declare.
Undeclared ==
  {t.s : t \in {x \in TokensOf(script.command) : x.t = "ph"}} \ Range(Keys(script.args))

\* C19: every emitted artifact holds each placeholder of an undeclared name
\* as often as the command does, whether or not the test declares other
\* arguments.
C19_UndeclaredPlaceholderSurvives ==
  \A a \in WrittenArtifacts :
    \A n \in Undeclared :
      Cardinality(Positions(a.preamble \o a.body, Placeholder(n)))
        = Cardinality(Positions(script.command, Placeholder(n)))

\* Both artifacts were written for a test that declares an argument other
\* than path, whose command holds the placeholders of path and of home.
C19_Witness ==
  /\ script_art.kind # "none"
  /\ wrapper_art.kind # "none"
  /\ script.command = RepeatingCommand
  /\ script.args # <<>>
  /\ "path" \in Undeclared

\* C20: every artifact of an emitter that substitutes has the framework
\* lines of the command, in their order and not substituted, as its
\* preamble, and none of them in the body of its entry routine.
C20_FrameworkLinesHoisted ==
  \A a \in WrittenArtifacts :
    a.kind # "javascript" =>
      /\ a.preamble = SelectLines(script.command, TRUE)
      /\ \A i \in 1..Len(a.body) : ~IsFrameworkLine(a.body[i])

\* ---- claims about quoted placeholders (EmitSpec)
\* Line read from left to right: a placeholder of a declared name between
\* two quotes becomes the bare name without the quotes, a placeholder of a
\* declared name elsewhere becomes the bare name, every other token stays.
RECURSIVE BareNames(_, _)
BareNames(line, declared) ==
  IF line = <<>> THEN <<>>
  ELSE IF /\ Len(line) >= 3
          /\ line[1] = Quote /\ line[3] = Quote
          /\ line[2].t = "ph" /\ line[2].s \in declared
       THEN <<Tok("txt", line[2].s)>> \o BareNames(SubSeq(line, 4, Len(line)), declared)
  ELSE IF Head(line).t = "ph" /\ Head(line).s \in declared
       THEN <<Tok("txt", Head(line).s)>> \o BareNames(Tail(line), declared)
  ELSE <<Head(line)>> \o BareNames(Tail(line), declared)

GuidFields(t, i) ==
  {n \in i..EntryEnd(t, i) : t[n].k = "guid" /\ EntryLine(t[n])}

\* Every guid: line of the corpus c is the identifier field of an entry,
\* and no entry has more than one.
AtMostOneGuidField(c) ==
  \A f \in 1..Len(c) :
    /\ \A n \in 1..Len(c[f]) :
         c[f][n].k = "guid" =>
           EntryLine(c[f][n]) /\ \E i \in NameLines(c[f]) : i < n
    /\ \A i \in NameLines(c[f]) : Cardinality(GuidFields(c[f], i)) <= 1

\* C25: when add_guids_to_yaml_files has returned on a corpus whose
\* entries had at most one identifier field each, every test entry of
\* every file has exactly one identifier field, and the field holds a
\* version-7-shaped identifier; in particular an entry whose field was not
\* directly after its name has not received a second one.
C25_OneValidGuidPerEntry ==
  (/\ run = "first" /\ mpc \in {"check", "exit", "done"}
   /\ AtMostOneGuidField(yaml0)) =>
    \A f \in 1..Len(yaml) :
      \A i \in NameLines(yaml[f]) :
        /\ Cardinality(GuidFields(yaml[f], i)) = 1
        /\ \A n \in GuidFields(yaml[f], i) : ValidGuidLine(yaml[f][n])

\* Some identifier occurs two or more times in the corpus c, compared
\* without regard to case.
HasDuplicateGuid(c) ==
  \E g \in CorpusGuids(c) : Cardinality(Occurrences(c, g)) >= 2

\* C27: main() ends with 2 exactly when the corpus it leaves holds a
\* duplicate identifier, whether or not it modified a file; with 1 exactly
\* when there is none and it modified a file; with 0 exactly when there is
\* none and it modified no file.
C27_ExitCodePrecedence ==
  mpc = "done" =>
    /\ exit_code \in {0, 1, 2}
    /\ exit_code = 2 <=> HasDuplicateGuid(yaml)
    /\ exit_code = 1 <=> (~HasDuplicateGuid(yaml) /\ written # {})
    /\ exit_code = 0 <=> (~HasDuplicateGuid(yaml) /\ written = {})

\* A run that modified a file and left a duplicate ends with 2.
C27_Witness ==
  /\ mpc = "done" /\ exit_code = 2
  /\ written # {} /\ files_updated > 0
  /\ HasDuplicateGuid(yaml)

\* ---- claims about the collision loop (FairSpec)
\* replace_guid is in its loop, asking get_guid() for an identifier.
InRetryLoop == mpc = "assign" /\ gpc = "fill" /\ m_pos # 0

\* Every identifier get_guid() can return has been seen.
GeneratorExhausted ==
  InRetryLoop /\ \A g \in Uuid7 : Lower(g) \in existing_guids

\* C30: a collision leaves the run where it is, in the loop of the same
\* guid: line, and unless get_guid() has no unseen identifier left to
\* return, a call of generate_guids_for_yaml that is working on a file
\* returns its outcome for that file.
C30_RetryLoopTerminates ==
  /\ [][ (InRetryLoop /\ text' = text) =>
           /\ InRetryLoop' /\ m_pos' = m_pos /\ file_i' = file_i
           /\ existing_guids' = existing_guids /\ exit_code' = exit_code ]_vars
  /\ (mpc = "assign" /\ gpc = "fill") ~>
       (GeneratorExhausted \/ (gpc = "idle" /\ Len(returned) = file_i - 1))

\* The loop has seen MaxRetries collisions in a row and get_guid() can still
\* return an identifier not seen.
C30_Witness ==
  InRetryLoop /\ retries = MaxRetries /\ ~GeneratorExhausted

\* ---- claims about the corpus passes (PassSpec)
Names == {t.name : t \in TestPool}

\* The places (file, position) where name n occurs in the corpus.
NameOccurrences(n) ==
  UNION { {<<f, i>> : i \in {j \in 1..Len(corpus[f].tests) : corpus[f].tests[j].name = n}}
          : f \in DOMAIN corpus }

GuidOccurrences(g) ==
  UNION { {<<f, i>> : i \in {j \in 1..Len(corpus[f].tests) : corpus[f].tests[j].guid = g}}
          : f \in DOMAIN corpus }

FilesNaming(n) == {oc[1] : oc \in NameOccurrences(n)}

TotalTests ==
  Cardinality(UNION { {<<f, i>> : i \in 1..Len(corpus[f].tests)} : f \in DOMAIN corpus })

WellFormedCorpus == \A f \in DOMAIN corpus : corpus[f].status = "ok"

OnceInEachOfTwoFiles(n) ==
  Cardinality(NameOccurrences(n)) = 2 /\ Cardinality(FilesNaming(n)) = 2

\* The errors of the k-th returned pass that are about name n.
NameErrors(k, n) ==
  {i \in DOMAIN passes[k].errors :
     /\ passes[k].errors[i].kind \in {"in_file", "cross_file"}
     /\ passes[k].errors[i].name = n}

\* C6: when every file is well formed, validate_yaml_files reports, for a
\* name that occurs once in each of exactly two files, exactly one
\* duplicate-name error, which names both files, and reports no error for a
\* name that occurs once in the corpus, in every order of the files.
C6_OneViolationForNameInTwoFiles ==
  \A k \in DOMAIN passes :
    (passes[k].pass = "validate" /\ WellFormedCorpus) =>
      \A n \in Names :
        /\ OnceInEachOfTwoFiles(n) =>
             \E i \in DOMAIN passes[k].errors :
               /\ NameErrors(k, n) = {i}
               /\ passes[k].errors[i].kind = "cross_file"
               /\ {passes[k].errors[i].file, passes[k].errors[i].other} = FilesNaming(n)
        /\ Cardinality(NameOccurrences(n)) = 1 => NameErrors(k, n) = {}

\* validate_yaml_files has returned on files A = [Alpha, Beta] and
\* B = [Beta, Gamma], placed anywhere among the files.
C6_Witness ==
  /\ \E k \in DOMAIN passes : passes[k].pass = "validate"
  /\ WellFormedCorpus
  /\ OnceInEachOfTwoFiles("Beta")
  /\ Cardinality(NameOccurrences("Alpha")) = 1
  /\ Cardinality(NameOccurrences("Gamma")) = 1
  /\ \E a, b \in DOMAIN corpus :
       /\ NamesInFile(corpus[a].tests) = <<"Alpha", "Beta">>
       /\ NamesInFile(corpus[b].tests) = <<"Beta", "Gamma">>

DuplicateNameInCorpus == \E n \in Names : Cardinality(NameOccurrences(n)) > 1

DuplicateGuidInCorpus ==
  \E g \in {t.guid : t \in TestPool} : Cardinality(GuidOccurrences(g)) > 1

\* C8: when the corpus holds a duplicate test name or a duplicate guid, no
\* command writes a script or a wrapper.
C8_NoArtifactOnDuplicate ==
  (DuplicateNameInCorpus \/ DuplicateGuidInCorpus) => artifacts = {}

\* C9: each of validate_yaml_files, convert_yaml_to_script and
\* dump_scripts_json, run on a corpus with a file that fails schema
\* validation, records the error, visits every file and returns False.
C9_SchemaFailureFailsPass ==
  \A k \in DOMAIN passes :
    (/\ passes[k].pass \in {"validate", "convert", "json"}
     /\ \E f \in DOMAIN corpus : corpus[f].status = "invalid") =>
      /\ \E i \in DOMAIN passes[k].errors : passes[k].errors[i].kind = "validation"
      /\ passes[k].files = Len(corpus)
      /\ ~passes[k].ok

\* C10: validate_yaml_files returns True exactly when no file raised and no
\* name occurs twice in the corpus; it then reports the number of files of
\* the corpus as validated and the number of tests of the corpus as unique
\* names.
C10_ValidateSucceedsIffCleanAndUnique ==
  \A k \in DOMAIN passes :
    passes[k].pass = "validate" =>
      /\ passes[k].ok <=> (WellFormedCorpus /\ ~DuplicateNameInCorpus)
      /\ passes[k].ok => passes[k].reported = <<Len(corpus), TotalTests>>

\* validate_yaml_files has returned True on a corpus with tests in more than
\* one file.
C10_Witness ==
  \E k \in DOMAIN passes :
    /\ passes[k].pass = "validate"
    /\ passes[k].ok
    /\ TotalTests >= 3
    /\ \E a, b \in DOMAIN corpus : a # b /\ corpus[a].tests # <<>> /\ corpus[b].tests # <<>>

\* C16: for a name present in two or more files, validate_yaml_files
\* reports a duplicate-name error, and every duplicate-name error it reports
\* for the name names all the files the name occurs in.
C16_ViolationListsAllFiles ==
  \A k \in DOMAIN passes :
    (passes[k].pass = "validate" /\ WellFormedCorpus) =>
      \A n \in Names :
        Cardinality(FilesNaming(n)) >= 2 =>
          /\ NameErrors(k, n) # {}
          /\ \A i \in NameErrors(k, n) :
               {passes[k].errors[i].file, passes[k].errors[i].other} = FilesNaming(n)

\* C17: a name that occurs more than once in one file and in no other file
\* gets exactly one error, of the in-file kind and naming that file, and no
\* cross-file error.
C17_OneInFileViolation ==
  \A k \in DOMAIN passes :
    (passes[k].pass = "validate" /\ WellFormedCorpus) =>
      \A n \in Names :
        (Cardinality(FilesNaming(n)) = 1 /\ Cardinality(NameOccurrences(n)) >= 2) =>
          \E i \in DOMAIN passes[k].errors :
            /\ NameErrors(k, n) = {i}
            /\ passes[k].errors[i].kind = "in_file"
            /\ {passes[k].errors[i].file} = FilesNaming(n)

\* C18: no step of check_for_duplicate_guids changes a file of its corpus,
\* and no step of validate_yaml_files changes a file of its corpus.
C18_ValidationReadOnly ==
  [][ /\ (mpc = "check" => yaml' = yaml)
      /\ (step = "validate" => corpus' = corpus) ]_vars

\* validate_yaml_files has returned False on a corpus with a repeated name.
C18_Witness ==
  /\ DuplicateNameInCorpus
  /\ \E k \in DOMAIN passes : passes[k].pass = "validate" /\ ~passes[k].ok


\* ---- claims about the written artifacts (PassSpec)
\* The script files convert_yaml_to_script has left in the output directory.
ScriptArtifacts == {a \in artifacts : a.root = "osascripts"}

\* C26: when validate_yaml_files has accepted the corpus and
\* convert_yaml_to_script has returned, the output directory holds as many
\* script files as converted_count says were written.
C26_NoArtifactOverwritten ==
  (/\ \E j \in DOMAIN passes : passes[j].pass = "validate" /\ passes[j].ok
   /\ \E k \in DOMAIN passes : passes[k].pass = "convert") =>
    Cardinality(ScriptArtifacts) = converted_count


\* ---- claims about the build command (PassSpec)
\* C28: the steps of build that have returned are the first steps of
\* clean, validate, convert, compile scripts, compile wrappers, docs, JSON,
\* in that order; all of them but the last succeeded; while build runs, all
\* succeeded and the running step is the next of the list; build has ended
\* exactly when a step failed, with exit status 1, or when all seven
\* succeeded, with exit status 0.
C28_BuildStepsInOrder ==
  command_name = "build" =>
    /\ Len(passes) <= Len(BuildSteps)
    /\ \A k \in DOMAIN passes : passes[k].pass = BuildSteps[k]
    /\ \A k \in DOMAIN passes : k < Len(passes) => passes[k].ok
    /\ IF step = "exit"
       THEN /\ passes # <<>>
            /\ IF passes[Len(passes)].ok
               THEN Len(passes) = Len(BuildSteps) /\ exit_status = 0
               ELSE exit_status = 1
       ELSE /\ \A k \in DOMAIN passes : passes[k].ok
            /\ Len(passes) < Len(BuildSteps)
            /\ step = BuildSteps[Len(passes) + 1]
            /\ exit_status = -1

\* A build whose compilation of the Swift wrappers failed has ended with
\* status 1 after five steps.
C28_Witness ==
  /\ command_name = "build" /\ step = "exit" /\ exit_status = 1
  /\ Len(passes) = 5
  /\ passes[5].pass = "compile_swift" /\ ~passes[5].ok
  /\ artifacts # {}


\* ---- claims about a failing file in a pass (PassSpec)
\* The files of the corpus that raise while they are handled.
FailingFiles == {f \in DOMAIN corpus : corpus[f].status # "ok"}

\* The first file, in the order of the pass, that holds a test named n.
FirstFile(n) == CHOOSE f \in FilesNaming(n) : \A g \in FilesNaming(n) : f <= g

\* The duplicate-name errors of the well-formed files alone: one in-file
\* error for a name a file holds more than once, and one cross-file error,
\* against the first file with the name, for a file that holds an occurrence
\* of the name other than the first of the corpus.
ExpectedNameErrors ==
  UNION { {Error("in_file", n, f, f) :
             f \in {g \in FilesNaming(n) : Count(NamesInFile(corpus[g].tests), n) > 1}}
          \cup
          {Error("cross_file", n, f, FirstFile(n)) :
             f \in {g \in FilesNaming(n) :
                      g # FirstFile(n) \/ Count(NamesInFile(corpus[g].tests), n) > 1}}
          : n \in Names }

\* The errors of the k-th returned pass that are about names.
ReportedNameErrors(k) ==
  {e \in Range(passes[k].errors) : e.kind \in {"in_file", "cross_file"}}

\* The files the k-th returned pass reported as failing.
ReportedFailingFiles(k) ==
  {e.file : e \in {x \in Range(passes[k].errors) : x.kind \in {"validation", "unexpected"}}}

\* C29: validate_yaml_files and convert_yaml_to_script visit every file of
\* the corpus whatever files fail, record one error for each failing file,
\* and handle the others: validation reports the duplicate-name errors of
\* the well-formed files alone, conversion writes the artifacts of every
\* test of every well-formed file.
C29_FailingFileDoesNotStopPass ==
  \A k \in DOMAIN passes :
    /\ passes[k].pass = "validate" =>
         /\ passes[k].files = Len(corpus)
         /\ ReportedFailingFiles(k) = FailingFiles
         /\ ReportedNameErrors(k) = ExpectedNameErrors
    /\ passes[k].pass = "convert" =>
         /\ passes[k].files = Len(corpus)
         /\ ReportedFailingFiles(k) = FailingFiles
         /\ passes[k].reported = <<TotalTests>>
         /\ \A f \in DOMAIN corpus : \A i \in DOMAIN corpus[f].tests :
              /\ ScriptPath(f, corpus[f].tests[i]) \in artifacts
              /\ SwiftPath(f, corpus[f].tests[i]) \in artifacts

====
